---- MODULE Spec2Model ----
(***************************************************************************)
(* A model of dgit's request pipeline: the two-grammar URL parser of       *)
(* internal/request, the repository lookup and redirect recovery of        *)
(* internal/middleware and the dispatch of DGit.ServeHTTP.                 *)
(*                                                                         *)
(* Go strings are modelled as sequences of one-character strings, so that  *)
(* strings.Split, strings.Join, path.Join/path.Clean, strings.TrimSuffix   *)
(* and the two regular expressions are computed character by character.   *)
(***************************************************************************)
EXTENDS Integers, Sequences, FiniteSets, TLC

VARIABLES
    path,       \* url.Path of the request
    query,      \* url.Query(): [from, service]
    method,     \* r.Method
    cfg,        \* config.Config: RemoveSuffix and the project list file
    repoDirs,   \* directories d under which IsRepo(d) is true
    badDirs,    \* directories that IsRepo accepts but git.PlainOpen rejects
    pc,         \* position of the request in the handler chain
    perr,       \* error returned by request.Parse
    dReq,       \* *request.Request stored in the context under "dReq"
    ctxRepo,    \* *repo.Repo stored in the context under "repo"
    status,     \* arguments of the w.WriteHeader calls, in order
    location,   \* values set for the location header, in order
    repos,      \* []*repo.Repo stored in the context under "repos"
    probes,     \* slugs handed to tryToOpenRepo by Repo, in order
    steps,      \* the stages that have run, in order
    hist,       \* the redirected requests the client has followed, in order
    fp,         \* data.FilePatch: the receiver of Info and String
    dpc,        \* position of the call of FilePatch.String
    ci,         \* number of chunks of fp the loop of Info has scanned
    scan,       \* locals of Info: lineNum, lines, fullInfo, left, right
    info,       \* local info of Info
    ret,        \* what Info returned: the rows and the error
    str,        \* what String returned
    rd,         \* data.RequestData: the receiver of PathElems
    pathElems,  \* what PathElems returned
    epc,        \* position of the call of PathElems
    graph,      \* the commits of the repository: the parents of each
    lreq,       \* the log request: Revision and From
    ldata,      \* data.LogData: what ToLogData returned
    pages,      \* the Commits of the log pages shown so far, in order
    lpc         \* position of the reader of the log

vars == <<path, query, method, cfg, repoDirs, badDirs, pc, perr, dReq,
          ctxRepo, repos, status, location, probes, steps, hist,
          fp, dpc, ci, scan, info, ret, str,
          rd, pathElems, epc, graph, lreq, ldata, pages, lpc>>

\* the file patch and the call of String on it
diffVars == <<fp, dpc, ci, scan, info, ret, str>>

\* the breadcrumb of a request and the pages of a log
dataVars == <<rd, pathElems, epc, graph, lreq, ldata, pages, lpc>>

\* the request, its environment and the client's history, which no handler
\* changes
envVars ==
    <<path, query, method, cfg, repoDirs, badDirs, hist, diffVars, dataVars>>

----------------------------------------------------------------------------
(* Strings                                                                 *)

Slash == "/"
Dot == "."
Dash == "-"
Empty == <<>>

S_slash == <<"/">>
S_dash == <<"-">>
S_dot == <<".">>
S_dotdot == <<".", ".">>
S_dotgit == <<".", "g", "i", "t">>
S_repo == <<"r", "e", "p", "o">>
S_head == <<"h", "e", "a", "d">>
S_tree == <<"t", "r", "e", "e">>
S_blob == <<"b", "l", "o", "b">>
S_raw == <<"r", "a", "w">>
S_diff == <<"d", "i", "f", "f">>
S_refs == <<"r", "e", "f", "s">>
S_log == <<"l", "o", "g">>
S_commit == <<"c", "o", "m", "m", "i", "t">>
S_dumbClone == <<"d", "u", "m", "b", "C", "l", "o", "n", "e">>
S_smartClone == <<"s", "m", "a", "r", "t", "C", "l", "o", "n", "e">>
S_HEAD == <<"H", "E", "A", "D">>
S_info == <<"i", "n", "f", "o">>
S_objects == <<"o", "b", "j", "e", "c", "t", "s">>
S_pack == <<"p", "a", "c", "k">>
S_idx == <<"i", "d", "x">>
S_packdash == <<"p", "a", "c", "k", "-">>
S_inforefs == S_info \o S_slash \o S_refs
S_objectsinfo == S_objects \o S_slash \o S_info
S_uploadpack == <<"g", "i", "t", "-", "u", "p", "l", "o", "a", "d", "-",
                  "p", "a", "c", "k">>

HexDigits == {"0", "1", "2", "3", "4", "5", "6", "7", "8", "9",
              "a", "b", "c", "d", "e", "f"}

Rep(c, n) == [i \in 1..n |-> c]

Tail2(s, i) == SubSeq(s, i, Len(s))

HasPrefix(s, p) == Len(s) >= Len(p) /\ SubSeq(s, 1, Len(p)) = p

HasSuffix(s, p) ==
    Len(s) >= Len(p) /\ SubSeq(s, Len(s) - Len(p) + 1, Len(s)) = p

\* strings.TrimSuffix / strings.CutSuffix (the string result)
TrimSuffix(s, p) ==
    IF HasSuffix(s, p) THEN SubSeq(s, 1, Len(s) - Len(p)) ELSE s

\* strings.Index(s[i:], sep) for a non-empty sep, as a 1-based position in
\* s; 0 when sep does not occur at or after position i
RECURSIVE IndexFrom(_, _, _)
IndexFrom(s, sep, i) ==
    IF i + Len(sep) - 1 > Len(s) THEN 0
    ELSE IF s[i] = sep[1] /\ SubSeq(s, i, i + Len(sep) - 1) = sep THEN i
    ELSE IndexFrom(s, sep, i + 1)

RECURSIVE SplitFrom(_, _, _)
SplitFrom(s, sep, start) ==
    LET i == IndexFrom(s, sep, start)
    IN  IF i = 0 THEN <<SubSeq(s, start, Len(s))>>
        ELSE <<SubSeq(s, start, i - 1)>> \o SplitFrom(s, sep, i + Len(sep))

\* strings.Split(s, sep) for a non-empty sep
Split(s, sep) == SplitFrom(s, sep, 1)

\* strings.Join(elems, sep)
RECURSIVE StringsJoin(_, _)
StringsJoin(elems, sep) ==
    IF Len(elems) = 0 THEN Empty
    ELSE IF Len(elems) = 1 THEN elems[1]
    ELSE elems[1] \o sep \o StringsJoin(Tail(elems), sep)

\* the element stack path.Clean builds while it walks the elements of a path
RECURSIVE CleanStack(_, _, _)
CleanStack(segs, stack, rooted) ==
    IF Len(segs) = 0 THEN stack
    ELSE LET e == Head(segs)
             rest == Tail(segs)
         IN  IF e = Empty \/ e = S_dot
                 THEN CleanStack(rest, stack, rooted)
             ELSE IF e = S_dotdot
                 THEN IF Len(stack) > 0 /\ stack[Len(stack)] # S_dotdot
                          THEN CleanStack(rest,
                                   SubSeq(stack, 1, Len(stack) - 1), rooted)
                      ELSE IF rooted
                          THEN CleanStack(rest, stack, rooted)
                      ELSE CleanStack(rest, Append(stack, e), rooted)
             ELSE CleanStack(rest, Append(stack, e), rooted)

\* path.Clean
Clean(p) ==
    IF p = Empty THEN S_dot
    ELSE LET rooted == p[1] = Slash
             stack == CleanStack(Split(p, S_slash), <<>>, rooted)
             body == StringsJoin(stack, S_slash)
         IN  IF rooted THEN S_slash \o body
             ELSE IF body = Empty THEN S_dot
             ELSE body

\* path.Join and filepath.Join (the same function on a slash-separated OS)
PathJoin(elems) ==
    LET nonEmpty == SelectSeq(elems, LAMBDA e : e # Empty)
    IN  IF Len(nonEmpty) = 0 THEN Empty
        ELSE Clean(StringsJoin(nonEmpty, S_slash))

\* path.Base
PathBase(p) ==
    IF p = Empty THEN S_dot
    ELSE LET segs == SelectSeq(Split(p, S_slash), LAMBDA e : e # Empty)
         IN  IF Len(segs) = 0 THEN S_slash ELSE segs[Len(segs)]

----------------------------------------------------------------------------
(* internal/request                                                        *)

\* the zero value of request.Request
NewRequest ==
    [Repo |-> Empty, Section |-> Empty, Revision |-> Empty, Path |-> Empty,
     From |-> Empty, DiffFrom |-> Empty, DiffTo |-> Empty]

\* const WebSections, as strings.Fields splits it
WebSections ==
    <<S_head, S_tree, S_blob, S_raw, S_diff, S_refs, S_log, S_commit>>

ErrNil == "nil"
ErrMalformed == "ErrMalformed"
ErrUnknownSection == "ErrUnknownSection"
errInvalidClonePath == "errInvalidClonePath"

Ok(r) == [err |-> ErrNil, req |-> r]
Fail(e) == [err |-> e, req |-> NewRequest]

\* func splitPath: split on "/" and drop the leading empty elements
RECURSIVE DropLeadingEmpty(_)
DropLeadingEmpty(segs) ==
    IF Len(segs) > 0 /\ Head(segs) = Empty
        THEN DropLeadingEmpty(Tail(segs))
    ELSE segs

splitPath(p) == DropLeadingEmpty(Split(p, S_slash))

HexRun(s, from, n) ==
    /\ Len(s) >= from + n - 1
    /\ \A i \in from..(from + n - 1) : s[i] \in HexDigits

ObjDirLen == 2
ObjNameLen == 38
PackNameLen == 40

\* objectPath = ^objects/[0-9a-f]{2}/[0-9a-f]{38}$
objectPath(s) ==
    LET pre == S_objects \o S_slash
        a == Len(pre) + 1
        b == a + ObjDirLen
    IN  /\ HasPrefix(s, pre)
        /\ HexRun(s, a, ObjDirLen)
        /\ Len(s) >= b /\ s[b] = Slash
        /\ HexRun(s, b + 1, ObjNameLen)
        /\ Len(s) = b + ObjNameLen

\* packPath = ^objects/pack/pack-[0-9a-f]{40}.(pack|idx)$
\* the "." of the pattern is unescaped: it matches any character but "\n"
packPath(s) ==
    LET pre == S_objects \o S_slash \o S_pack \o S_slash \o S_packdash
        a == Len(pre) + 1
        b == a + PackNameLen
    IN  /\ HasPrefix(s, pre)
        /\ HexRun(s, a, PackNameLen)
        /\ Len(s) >= b /\ s[b] # "\n"
        /\ Tail2(s, b + 1) \in {S_pack, S_idx}

\* the switch on len(splitPath) inside the loop of parseCloneRequest
cloneDone(sp) ==
    CASE Len(sp) = 1 -> sp[1] = S_HEAD
      [] Len(sp) = 2 -> PathJoin(SubSeq(sp, 1, 2)) = S_inforefs
      [] Len(sp) = 3 ->
            LET testPath == PathJoin(SubSeq(sp, 1, 3))
            IN  \/ PathJoin(SubSeq(sp, 1, 2)) = S_objectsinfo
                \/ objectPath(testPath)
                \/ packPath(testPath)
      [] OTHER -> FALSE

\* the loop of parseCloneRequest: consume a segment, test the remainder
RECURSIVE cloneLoop(_, _)
cloneLoop(repo, sp) ==
    IF Len(sp) > 1
        THEN LET repo2 == PathJoin(<<repo, sp[1]>>)
                 sp2 == Tail(sp)
             IN  IF cloneDone(sp2)
                     THEN Ok([NewRequest EXCEPT
                                 !.Repo = repo2,
                                 !.Section = S_dumbClone,
                                 !.Path = PathJoin(sp2)])
                 ELSE cloneLoop(repo2, sp2)
    ELSE Fail(errInvalidClonePath)

parseCloneRequest(p, q) ==
    LET sp == splitPath(p)
    IN  IF Len(sp) < 2 THEN Fail(errInvalidClonePath)
        ELSE cloneLoop(Empty, sp)

\* the loop of parseWebRequest: accumulate the repository path up to "-"
RECURSIVE webRepoLoop(_, _)
webRepoLoop(repo, sp) ==
    IF Len(sp) > 0
        THEN IF sp[1] # S_dash
                 THEN webRepoLoop(PathJoin(<<repo, sp[1]>>), Tail(sp))
             ELSE [repo |-> repo, rest |-> Tail(sp)]
    ELSE [repo |-> repo, rest |-> sp]

\* webFields with the sub-path taken from splitPath[1:] instead of [2:]
webFields_PathFromRevision(r, sp) ==
    LET r1 == IF Len(sp) > 2
                  THEN [r EXCEPT !.Path = StringsJoin(Tail2(sp, 2), S_slash)]
              ELSE r
        r2 == IF Len(sp) >= 2 THEN [r1 EXCEPT !.Revision = sp[2]] ELSE r1
    IN  [r2 EXCEPT !.Section = sp[1]]

\* the switch on len(splitPath) after the loop: Path, Revision, Section
webFields(r, sp) ==
    LET r1 == IF Len(sp) > 2
                  THEN [r EXCEPT !.Path = StringsJoin(Tail2(sp, 3), S_slash)]
              ELSE r
        r2 == IF Len(sp) >= 2 THEN [r1 EXCEPT !.Revision = sp[2]] ELSE r1
    IN  [r2 EXCEPT !.Section = sp[1]]

\* if r.Section == "diff": split the revision on ".."
webDiff(r) ==
    LET ids == Split(r.Revision, S_dotdot)
    IN  IF Len(ids) # 2 THEN Fail(ErrMalformed)
        ELSE Ok([r EXCEPT !.Revision = Empty,
                          !.DiffFrom = ids[1],
                          !.DiffTo = ids[2]])

\* webValidate without the fallthrough from "refs" into "log", "commit"
webValidate_NoFallthrough(r) ==
    IF r.Section = S_refs /\ r.Revision # Empty THEN Fail(ErrMalformed)
    ELSE IF r.Section \in {S_log, S_commit} /\ r.Path # Empty
        THEN Fail(ErrMalformed)
    ELSE Ok(r)

\* the final switch of parseWebRequest: refs, log and commit
webValidate(r) ==
    IF r.Section = S_refs /\ r.Revision # Empty THEN Fail(ErrMalformed)
    ELSE IF r.Section \in {S_refs, S_log, S_commit} /\ r.Path # Empty
        THEN Fail(ErrMalformed)
    ELSE Ok(r)

parseWebRequest(p, q) ==
    LET sp == splitPath(p)
    IN  IF Len(sp) = 0 THEN Ok([NewRequest EXCEPT !.Section = S_repo])
        ELSE
          LET acc == webRepoLoop(sp[1], Tail(sp))
              r0 == [NewRequest EXCEPT !.Repo = acc.repo]
          IN  IF Len(acc.rest) = 0 THEN Ok([r0 EXCEPT !.Section = S_head])
              ELSE
                LET r1 == webFields(r0, acc.rest)
                IN  IF r1.Section = S_diff THEN webDiff(r1)
                    ELSE
                      LET r2 == [r1 EXCEPT !.From = q.from]
                      IN  IF r2.From # Empty /\ r2.Section # S_log
                              THEN Fail(ErrMalformed)
                          ELSE webValidate(r2)

\* func Parse: the clone grammar first, the web grammar when it fails
Parse(p, q) ==
    LET r == parseCloneRequest(p, q)
    IN  IF r.err = ErrNil THEN r ELSE parseWebRequest(p, q)

----------------------------------------------------------------------------
(* DGit.ServeHTTP                                                          *)

StatusOK == 200
StatusMovedPermanently == 301
StatusBadRequest == 400
StatusNotFound == 404
StatusMethodNotAllowed == 405
StatusInternalServerError == 500

NoRepo == [Path |-> Empty, Slug |-> Empty, open |-> FALSE]

\* the sections ServeHTTP has a case for
ServedSections ==
    {S_repo, S_head, S_tree, S_blob, S_raw, S_refs, S_log, S_commit, S_diff,
     S_dumbClone}

\* the status ServeHTTP writes for an error of request.Parse
parseErrorStatus(e) ==
    CASE e = ErrMalformed -> StatusBadRequest
      [] e = ErrUnknownSection -> StatusNotFound
      [] OTHER -> StatusInternalServerError

\* ServeHTTP: parse the URL, answer a parse error, or pick the handler chain
ServeHTTP ==
    /\ pc = "ServeHTTP"
    /\ \E r \in {Parse(path, query)} :
           /\ perr' = r.err
           /\ dReq' = r.req
           /\ IF r.err # ErrNil
                  THEN /\ status' = Append(status, parseErrorStatus(r.err))
                       /\ pc' = "done"
              ELSE IF r.req.Section \in ServedSections
                  THEN /\ status' = status
                       /\ pc' = "Get"
              ELSE /\ status' = Append(status, StatusBadRequest)
                   /\ pc' = "done"
    /\ steps' = Append(steps, "ServeHTTP")
    /\ UNCHANGED <<envVars, ctxRepo, repos, location, probes>>

----------------------------------------------------------------------------
(* internal/repo and internal/middleware                                   *)

\* Config.RepoBasePath
RepoBasePath == <<"/", "s", "r", "v">>

\* strings.CutPrefix (the string result)
CutPrefix(s, p) == IF HasPrefix(s, p) THEN Tail2(s, Len(p) + 1) ELSE s

\* repo.IsRepo: the directory holds an objects directory and a HEAD entry
IsRepo(dir) == dir \in repoDirs

\* repo.NewRepo: Path and Slug of the repository opened at dir; NoRepo
\* when git.PlainOpen or the reads that follow it fail
NewRepo(dir, c) ==
    IF dir \in badDirs THEN NoRepo
    ELSE LET p == CutPrefix(dir, RepoBasePath \o S_slash)
         IN  [Path |-> p,
              Slug |-> IF c.RemoveSuffix
                           THEN TrimSuffix(TrimSuffix(p, S_dotgit), S_slash)
                       ELSE p,
              open |-> TRUE]

\* the loop of shouldServe over the project list
inProjectList(slug, c) ==
    c.ListOK /\ \E i \in 1..Len(c.ProjectList) : c.ProjectList[i] = slug

\* shouldServe without the test against the project list
shouldServe_AnyProject(slug, c) ==
    IsRepo(PathJoin(<<RepoBasePath, slug>>))

\* func shouldServe
shouldServe(slug, c) ==
    /\ IsRepo(PathJoin(<<RepoBasePath, slug>>))
    /\ c.UseList => inProjectList(slug, c)

\* func tryToOpenRepo
tryToOpenRepo(slug, c) ==
    IF shouldServe(slug, c) THEN NewRepo(PathJoin(<<RepoBasePath, slug>>), c)
    ELSE NoRepo

\* repoCandidates with the ".git" forms tried whatever RemoveSuffix is
repoCandidates_AnyPolicy(req, c) ==
    <<req.Repo, req.Repo \o S_dotgit, PathJoin(<<req.Repo, S_dotgit>>)>>

\* the slugs Repo hands to tryToOpenRepo, in order, when none of them opens
repoCandidates(req, c) ==
    IF c.RemoveSuffix
        THEN <<req.Repo, req.Repo \o S_dotgit, PathJoin(<<req.Repo, S_dotgit>>)>>
    ELSE <<req.Repo>>

\* the position of the first candidate that opens, 0 when none does
firstOpen(cands, c) ==
    LET hits == {k \in 1..Len(cands) : tryToOpenRepo(cands[k], c).open}
    IN  IF hits = {} THEN 0 ELSE CHOOSE k \in hits : \A j \in hits : k <= j

\* func Get
Get ==
    /\ pc = "Get"
    /\ IF method # "GET"
           THEN /\ status' = Append(status, StatusMethodNotAllowed)
                /\ pc' = "done"
       ELSE /\ status' = status
            /\ pc' = IF dReq.Section = S_repo THEN "Repos" ELSE "Repo"
    /\ steps' = Append(steps, "Get")
    /\ UNCHANGED <<envVars, perr, dReq, ctxRepo, repos, location, probes>>

\* the handler chain behind Repo: ResolveHead for the head section only
afterRepo == IF dReq.Section = S_head THEN "ResolveHead" ELSE "handler"

\* func Repo, up to the redirect checks: open the repository of the request
Repo ==
    /\ pc = "Repo"
    /\ \E cands \in {repoCandidates(dReq, cfg)} :
         \E k \in {firstOpen(cands, cfg)} :
           IF k > 0
               THEN /\ probes' = probes \o SubSeq(cands, 1, k)
                    /\ ctxRepo' = tryToOpenRepo(cands[k], cfg)
                    /\ pc' = afterRepo
           ELSE /\ probes' = probes \o cands
                /\ ctxRepo' = ctxRepo
                /\ pc' = IF dReq.Section = S_head THEN "tryDashRedirect"
                         ELSE "trySuffixRedirect"
    /\ steps' = Append(steps, "Repo")
    /\ UNCHANGED <<envVars, perr, dReq, repos, status, location>>

NoRedirect == [found |-> FALSE, loc |-> Empty]

\* the test of tryDashRedirect at path element j: it is a section keyword
\* and the elements before it name a repository to serve
dashHit(elems, j, c) ==
    LET cPath == PathJoin(SubSeq(elems, 1, j - 1))
    IN  /\ \E n \in 1..Len(WebSections) : elems[j] = WebSections[n]
        /\ \/ shouldServe(cPath, c)
           \/ /\ c.RemoveSuffix
              /\ \/ shouldServe(cPath \o S_dotgit, c)
                 \/ shouldServe(PathJoin(<<cPath, S_dotgit>>), c)

\* the loop of tryDashRedirect, from the last path element down to the
\* second
RECURSIVE dashScan(_, _, _)
dashScan(elems, j, c) ==
    IF j < 2 THEN NoRedirect
    ELSE IF dashHit(elems, j, c)
        THEN [found |-> TRUE,
              loc |-> PathJoin(<<S_slash \o PathJoin(SubSeq(elems, 1, j - 1)),
                                 S_dash,
                                 PathJoin(Tail2(elems, j))>>)]
    ELSE dashScan(elems, j - 1, c)

\* func tryDashRedirect: whether it redirects, and where to
tryDashRedirectResult(req, c) ==
    dashScan(Split(req.Repo, S_slash), Len(Split(req.Repo, S_slash)), c)

\* loc of trySuffixRedirect
suffixLoc(cRepo, req) ==
    PathJoin(<<cRepo, S_dash, req.Section, req.Revision, req.Path>>)

\* func trySuffixRedirect: whether it redirects, and where to
trySuffixRedirectResult(req, c) ==
    IF c.RemoveSuffix
        THEN LET cRepo == TrimSuffix(TrimSuffix(req.Repo, S_dotgit), S_slash)
             IN  IF \/ shouldServe(cRepo \o S_dotgit, c)
                    \/ shouldServe(PathJoin(<<cRepo, S_dotgit>>), c)
                     THEN [found |-> TRUE, loc |-> suffixLoc(cRepo, req)]
                 ELSE NoRedirect
    ELSE LET cRepo1 == req.Repo \o S_dotgit
             cRepo2 == PathJoin(<<req.Repo \o S_dotgit>>)
         IN  IF shouldServe(cRepo2, c)
                 THEN [found |-> TRUE, loc |-> suffixLoc(cRepo2, req)]
             ELSE IF shouldServe(cRepo1, c)
                 THEN [found |-> TRUE, loc |-> suffixLoc(cRepo1, req)]
             ELSE NoRedirect

\* Redirect without the return that follows a successful redirect
Redirect_NoReturn(res, next) ==
    /\ IF res.found
           THEN /\ location' = Append(location, res.loc)
                /\ status' = Append(status, StatusMovedPermanently)
       ELSE /\ location' = location
            /\ status' = status
    /\ pc' = next

\* a redirect check of Repo: answer 301 with the location, or go on
Redirect(res, next) ==
    IF res.found
        THEN /\ location' = Append(location, res.loc)
             /\ status' = Append(status, StatusMovedPermanently)
             /\ pc' = "done"
    ELSE /\ location' = location
         /\ status' = status
         /\ pc' = next

\* func Repo: req.Section == "head" && tryDashRedirect(w, req, c)
TryDashRedirect ==
    /\ pc = "tryDashRedirect"
    /\ Redirect(tryDashRedirectResult(dReq, cfg), "trySuffixRedirect")
    /\ steps' = Append(steps, "tryDashRedirect")
    /\ UNCHANGED <<envVars, perr, dReq, ctxRepo, repos, probes>>

\* func Repo: trySuffixRedirect(w, req, c), and h(w, r) when it fails
TrySuffixRedirect ==
    /\ pc = "trySuffixRedirect"
    /\ Redirect(trySuffixRedirectResult(dReq, cfg), afterRepo)
    /\ steps' = Append(steps, "trySuffixRedirect")
    /\ UNCHANGED <<envVars, perr, dReq, ctxRepo, repos, probes>>

S_main == <<"m", "a", "i", "n">>
S_refsheadsmain == S_refs \o S_slash \o <<"h", "e", "a", "d", "s">> \o S_slash \o S_main

\* what repo.R.Head() can give: the name of the reference HEAD points to,
\* or the empty name ResolveHead substitutes when Head fails
HeadNames == {Empty, S_refsheadsmain}

\* func ResolveHead
ResolveHead ==
    /\ pc = "ResolveHead"
    /\ IF ~ctxRepo.open THEN dReq' = dReq
       ELSE \E name \in HeadNames :
              dReq' = [dReq EXCEPT
                          !.Revision = IF PathBase(name) = S_dot THEN Empty
                                       ELSE PathBase(name)]
    /\ pc' = "handler"
    /\ steps' = Append(steps, "ResolveHead")
    /\ UNCHANGED <<envVars, perr, ctxRepo, repos, status, location, probes>>

\* what a section's handler answers once it has a repository: the page,
\* "Not found" or "Internal server error" as the reads of the repository
\* go; the status is the first one the handler writes, the one sent
HandlerOutcomes ==
    {StatusOK, StatusNotFound, StatusInternalServerError}

\* treeHandler, blobHandler, rawHandler, refsHandler, logHandler,
\* commitHandler, diffHandler, dumbCloneHandler
Handler ==
    /\ pc = "handler"
    /\ IF ~ctxRepo.open
           THEN status' = Append(status, StatusNotFound)
       ELSE \E st \in HandlerOutcomes : status' = Append(status, st)
    /\ pc' = "done"
    /\ steps' = Append(steps, "handler")
    /\ UNCHANGED <<envVars, perr, dReq, ctxRepo, repos, location, probes>>

\* a is b or a directory above b
IsAbove(a, b) == a = b \/ HasPrefix(b, a \o S_slash)

\* func getRepos: filepath.Walk hands walkFunc the path of each directory
\* under RepoBasePath and does not descend below one walkFunc skips
getRepos(c) ==
    LET served(d) == shouldServe(d, c)
        visited(d) == \A a \in repoDirs : (IsAbove(a, d) /\ a # d) => ~served(a)
    IN  {NewRepo(d, c) : d \in {e \in repoDirs :
            IsAbove(RepoBasePath, e) /\ visited(e) /\ served(e)
            /\ e \notin badDirs}}

\* func getFilteredRepos
getFilteredRepos(c) ==
    {NewRepo(PathJoin(<<RepoBasePath, c.ProjectList[i]>>), c) :
        i \in {j \in 1..Len(c.ProjectList) :
                  /\ IsRepo(PathJoin(<<RepoBasePath, c.ProjectList[j]>>))
                  /\ PathJoin(<<RepoBasePath, c.ProjectList[j]>>)
                         \notin badDirs}}

\* func Repos and rootHandler
Repos ==
    /\ pc = "Repos"
    /\ IF ~cfg.UseList
           THEN /\ repos' = getRepos(cfg)
                /\ status' = Append(status, StatusOK)
       ELSE IF ~cfg.ListOK
           THEN /\ repos' = repos
                /\ status' = Append(status, StatusInternalServerError)
       ELSE /\ repos' = getFilteredRepos(cfg)
            /\ status' = Append(status, StatusOK)
    /\ pc' = "done"
    /\ steps' = Append(steps, "Repos")
    /\ UNCHANGED <<envVars, perr, dReq, ctxRepo, location, probes>>

Next ==
    \/ ServeHTTP
    \/ Get
    \/ Repos
    \/ Repo
    \/ TryDashRedirect
    \/ TrySuffixRedirect
    \/ ResolveHead
    \/ Handler

----------------------------------------------------------------------------
(* data.FilePatch                                                          *)

\* Operation
Equal == 0
Add == 1
Delete == 2

DiffContext == 3

Newline == "\n"
S_newline == <<"\n">>
S_space == <<" ">>
S_plus == <<"+">>
S_ellipsis == <<".", " ", ".", " ", ".">>
S_binary == <<"C", "h", "a", "n", "g", "e", "s", " ", "t", "o", " ",
              "b", "i", "n", "a", "r", "y", " ", "f", "i", "l", "e">>

errNone == "nil"
errBinaryPatch == "errBinaryPatch"
\* the run-time panic of an index out of range
errIndexOutOfRange == "index out of range"

Digits == <<"0", "1", "2", "3", "4", "5", "6", "7", "8", "9">>

\* strconv.Itoa for a number that is not negative
RECURSIVE Itoa(_)
Itoa(n) ==
    IF n < 10 THEN <<Digits[n + 1]>>
    ELSE Itoa(n \div 10) \o <<Digits[(n % 10) + 1]>>

\* the lines bufio.Scanner hands out for a content without "\r" and with
\* lines shorter than its buffer: the pieces between "\n", without an empty
\* last piece
ScanLines(content) ==
    LET parts == Split(content, S_newline)
    IN  IF parts[Len(parts)] = Empty
            THEN SubSeq(parts, 1, Len(parts) - 1)
        ELSE parts

\* type PatchInfo
PatchInfo(l, r, op, c) ==
    [Left |-> l, Right |-> r, Operation |-> op, Content |-> c]

\* PatchInfo{Content: ". . ."}
EllipsisRow == PatchInfo(Empty, Empty, Equal, S_ellipsis)

\* the locals of Info when it starts
ScanStart ==
    [lineNum |-> 0, lines |-> <<>>, fullInfo |-> <<>>, left |-> 1,
     right |-> 1]

\* scanLine with an added line counted on the left side as well
scanLine_AddCountsLeft(st, type, text) ==
    CASE type = Equal ->
            [st EXCEPT
                !.fullInfo = Append(@, PatchInfo(Itoa(st.left),
                                 Itoa(st.right), Equal, S_space \o text)),
                !.left = @ + 1, !.right = @ + 1, !.lineNum = @ + 1]
      [] type = Add ->
            [st EXCEPT
                !.fullInfo = Append(@, PatchInfo(Empty, Itoa(st.right), Add,
                                 S_plus \o text)),
                !.lines = Append(@, st.lineNum),
                !.left = @ + 1, !.right = @ + 1, !.lineNum = @ + 1]
      [] type = Delete ->
            [st EXCEPT
                !.fullInfo = Append(@, PatchInfo(Itoa(st.left), Empty,
                                 Delete, S_dash \o text)),
                !.lines = Append(@, st.lineNum),
                !.left = @ + 1, !.lineNum = @ + 1]
      [] OTHER -> [st EXCEPT !.lineNum = @ + 1]

\* the body of the scanner loop of Info for one line of a chunk
scanLine(st, type, text) ==
    CASE type = Equal ->
            [st EXCEPT
                !.fullInfo = Append(@, PatchInfo(Itoa(st.left),
                                 Itoa(st.right), Equal, S_space \o text)),
                !.left = @ + 1, !.right = @ + 1, !.lineNum = @ + 1]
      [] type = Add ->
            [st EXCEPT
                !.fullInfo = Append(@, PatchInfo(Empty, Itoa(st.right), Add,
                                 S_plus \o text)),
                !.lines = Append(@, st.lineNum),
                !.right = @ + 1, !.lineNum = @ + 1]
      [] type = Delete ->
            [st EXCEPT
                !.fullInfo = Append(@, PatchInfo(Itoa(st.left), Empty,
                                 Delete, S_dash \o text)),
                !.lines = Append(@, st.lineNum),
                !.left = @ + 1, !.lineNum = @ + 1]
      [] OTHER -> [st EXCEPT !.lineNum = @ + 1]

\* the scanner loop of Info over the lines of one chunk
RECURSIVE scanChunk(_, _, _)
scanChunk(st, type, texts) ==
    IF texts = <<>> THEN st
    ELSE scanChunk(scanLine(st, type, Head(texts)), type, Tail(texts))

\* lineInContext with the context compared strictly
lineInContext_Strict(i, lines) ==
    \E k \in 1..Len(lines) :
        \/ i < lines[k] /\ (i + DiffContext) > lines[k]
        \/ i = lines[k]
        \/ i > lines[k] /\ (i - DiffContext) < lines[k]

\* the test of the loop labelled context: row i is within DiffContext rows
\* of a changed row
lineInContext(i, lines) ==
    \E k \in 1..Len(lines) :
        \/ i < lines[k] /\ (i + DiffContext) >= lines[k]
        \/ i = lines[k]
        \/ i > lines[k] /\ (i - DiffContext) <= lines[k]

\* windowLoop with inDiff left set after an ellipsis
RECURSIVE windowLoop_EveryDropped(_, _, _, _, _)
windowLoop_EveryDropped(fullInfo, lines, i, inDiff, acc) ==
    IF i >= Len(fullInfo) THEN acc
    ELSE IF lineInContext(i, lines)
        THEN windowLoop_EveryDropped(fullInfo, lines, i + 1, TRUE,
                                     Append(acc, fullInfo[i + 1]))
    ELSE IF inDiff
        THEN windowLoop_EveryDropped(fullInfo, lines, i + 1, TRUE,
                                     Append(acc, EllipsisRow))
    ELSE windowLoop_EveryDropped(fullInfo, lines, i + 1, FALSE, acc)

\* the windowing loop of Info from row i on (rows are counted from 0)
RECURSIVE windowLoop(_, _, _, _, _)
windowLoop(fullInfo, lines, i, inDiff, acc) ==
    IF i >= Len(fullInfo) THEN acc
    ELSE IF lineInContext(i, lines)
        THEN windowLoop(fullInfo, lines, i + 1, TRUE,
                        Append(acc, fullInfo[i + 1]))
    ELSE IF inDiff
        THEN windowLoop(fullInfo, lines, i + 1, FALSE,
                        Append(acc, EllipsisRow))
    ELSE windowLoop(fullInfo, lines, i + 1, FALSE, acc)

\* infoReturn with the last row dropped whatever it is
infoReturn_DropLast(rows) ==
    IF Len(rows) = 0
        THEN [rows |-> <<>>, err |-> errIndexOutOfRange]
    ELSE [rows |-> SubSeq(rows, 1, Len(rows) - 1), err |-> errNone]

\* Info after the windowing loop: the rows it returns, or the panic of
\* info[len(info)-1] on an empty info
infoReturn(rows) ==
    IF Len(rows) = 0
        THEN [rows |-> <<>>, err |-> errIndexOutOfRange]
    ELSE IF rows[Len(rows)].Content = S_ellipsis
        THEN [rows |-> SubSeq(rows, 1, Len(rows) - 1), err |-> errNone]
    ELSE [rows |-> rows, err |-> errNone]

\* the loop of String over the rows: each Content followed by "\n"
RECURSIVE writeRows(_)
writeRows(rows) ==
    IF rows = <<>> THEN Empty
    ELSE rows[1].Content \o S_newline \o writeRows(Tail(rows))

NoReturn == [rows |-> <<>>, err |-> errNone]

\* no call of String is under way
DiffIdle ==
    /\ fp = [IsBinary |-> FALSE, Chunks |-> <<>>]
    /\ dpc = "idle"
    /\ ci = 0
    /\ scan = ScanStart
    /\ info = <<>>
    /\ ret = NoReturn
    /\ str = Empty

\* the request and its passage through the handler chain
reqVars ==
    <<path, query, method, cfg, repoDirs, badDirs, hist, pc, perr, dReq,
      ctxRepo, repos, status, location, probes, steps>>

\* the state FilePatch does not touch
serveVars == <<reqVars, dataVars>>

\* InfoEnter without the test of fp.IsBinary
InfoEnter_NoBinaryTest ==
    /\ dpc = "Info"
    /\ ret' = ret
    /\ dpc' = "chunks"
    /\ UNCHANGED <<serveVars, fp, ci, scan, info, str>>

\* func Info, up to the loop over the chunks
InfoEnter ==
    /\ dpc = "Info"
    /\ IF fp.IsBinary
           THEN /\ ret' = [rows |-> <<>>, err |-> errBinaryPatch]
                /\ dpc' = "String"
       ELSE /\ ret' = ret
            /\ dpc' = "chunks"
    /\ UNCHANGED <<serveVars, fp, ci, scan, info, str>>

\* func Info: one turn of the loop over fp.Chunks
InfoChunk ==
    /\ dpc = "chunks"
    /\ ci < Len(fp.Chunks)
    /\ scan' = scanChunk(scan, fp.Chunks[ci + 1].Type,
                         ScanLines(fp.Chunks[ci + 1].Content))
    /\ ci' = ci + 1
    /\ UNCHANGED <<serveVars, fp, dpc, info, ret, str>>

\* func Info: the windowing loop over fullInfo
InfoWindow ==
    /\ dpc = "chunks"
    /\ ci = Len(fp.Chunks)
    /\ info' = windowLoop(scan.fullInfo, scan.lines, 0, FALSE, <<>>)
    /\ dpc' = "return"
    /\ UNCHANGED <<serveVars, fp, ci, scan, ret, str>>

\* func Info: the return after the windowing loop
InfoReturn ==
    /\ dpc = "return"
    /\ ret' = infoReturn(info)
    /\ dpc' = IF info = <<>> THEN "panic" ELSE "String"
    /\ UNCHANGED <<serveVars, fp, ci, scan, info, str>>

\* func String, after its call of Info
String ==
    /\ dpc = "String"
    /\ str' = IF ret.err = errBinaryPatch THEN S_binary
              ELSE writeRows(ret.rows)
    /\ dpc' = "done"
    /\ UNCHANGED <<serveVars, fp, ci, scan, info, ret>>

NextDiff ==
    \/ InfoEnter
    \/ InfoChunk
    \/ InfoWindow
    \/ InfoReturn
    \/ String

----------------------------------------------------------------------------
(* data.RequestData and convert.ToLogData                                  *)

\* type PathElem
PathElem(repo, rev, p, base) ==
    [Repo |-> repo, Revision |-> rev, Path |-> p, Base |-> base]

\* the loop of PathElems run over every element of the split path, the
\* last too
RECURSIVE pathElemsLoop_ToLast(_, _, _, _, _)
pathElemsLoop_ToLast(r, parts, i, sp, acc) ==
    IF i < Len(parts)
        THEN LET sp2 == sp \o S_slash \o parts[i + 1]
             IN  pathElemsLoop_ToLast(r, parts, i + 1, sp2,
                     Append(acc, PathElem(r.Repo.Slug, r.Revision, sp2,
                                          parts[i + 1])))
    ELSE acc

\* the loop of PathElems over parts, the split path: i as in the code, sp
\* the strings.Builder, acc the elements written so far
RECURSIVE pathElemsLoop(_, _, _, _, _)
pathElemsLoop(r, parts, i, sp, acc) ==
    IF i < Len(parts) - 1
        THEN LET sp2 == sp \o S_slash \o parts[i + 1]
             IN  pathElemsLoop(r, parts, i + 1, sp2,
                     Append(acc, PathElem(r.Repo.Slug, r.Revision, sp2,
                                          parts[i + 1])))
    ELSE acc

\* the zero value of data.RequestData
NoRequestData == [Repo |-> [Slug |-> Empty], Revision |-> Empty, Path |-> Empty]

\* func (r RequestData) PathElems
PathElems ==
    /\ epc = "PathElems"
    /\ pathElems' = pathElemsLoop(rd, Split(rd.Path, S_slash), 0, Empty, <<>>)
    /\ epc' = "done"
    /\ UNCHANGED <<reqVars, diffVars, rd, graph, lreq, ldata, pages, lpc>>

NextElems == PathElems

LogPageSize == 20

\* the empty data.Hash
NoHash == 0

\* a repository without commits
NoGraph == [parents |-> <<>>, tip |-> NoHash]

\* the commits reachable from the commits of S along the parent links
RECURSIVE Reach(_, _)
Reach(g, S) ==
    LET T == S \cup UNION {{g.parents[c][k] : k \in 1..Len(g.parents[c])} :
                               c \in S}
    IN  IF T = S THEN S ELSE Reach(g, T)

\* data.Commit: the hash and the parent hashes
Commit(g, h) == [Hash |-> h, ParentHashes |-> g.parents[h]]

\* repo.R.Log with LogOrderCommitterTime, read for at most k commits: the
\* commits of S from the latest committer time down; a commit's hash is its
\* rank in the order of committer times
RECURSIVE logNext(_, _, _)
logNext(g, S, k) ==
    IF k = 0 \/ S = {} THEN <<>>
    ELSE LET c == CHOOSE x \in S : \A y \in S : y <= x
         IN  <<Commit(g, c)>> \o logNext(g, S \ {c}, k - 1)

\* toCommitHash: the commit the revision of the request names
toCommitHash(rev, g) == g.tip

\* c.HasParents
HasParents(c) == Len(c.ParentHashes) # 0

\* the assignment of NextPage at the end of ToLogData
nextPage(commits) ==
    IF Len(commits) = LogPageSize /\ HasParents(commits[LogPageSize])
        THEN commits[LogPageSize].ParentHashes[1]
    ELSE NoHash

\* func ToLogData
ToLogDataResult(g, req) ==
    LET from == IF req.From = NoHash THEN toCommitHash(req.Revision, g)
                ELSE req.From
        commits == logNext(g, Reach(g, {from}), LogPageSize)
    IN  [Revision |-> req.Revision, FromHash |-> from, Commits |-> commits,
         NextPage |-> nextPage(commits)]

\* func (l LogData) HasNext
HasNext(l) == l.NextPage # NoHash

NoLogRequest == [Revision |-> Empty, From |-> NoHash]

NoLogData ==
    [Revision |-> Empty, FromHash |-> NoHash, Commits |-> <<>>,
     NextPage |-> NoHash]

\* no breadcrumb is being built and no log is being read
DataIdle ==
    /\ rd = NoRequestData
    /\ pathElems = <<>>
    /\ epc = "idle"
    /\ graph = NoGraph
    /\ lreq = NoLogRequest
    /\ ldata = NoLogData
    /\ pages = <<>>
    /\ lpc = "idle"

\* logHandler: ToLogData and the page written from its result
ToLogData ==
    /\ lpc = "ToLogData"
    /\ \E l \in {ToLogDataResult(graph, lreq)} :
           /\ ldata' = l
           /\ pages' = Append(pages, l.Commits)
    /\ lpc' = "log.tmpl"
    /\ UNCHANGED <<reqVars, diffVars, rd, pathElems, epc, graph, lreq>>

\* the reader follows the link "More ..." of the page: the same revision
\* with ?from={{ .NextPage }}
More ==
    /\ lpc = "log.tmpl"
    /\ HasNext(ldata)
    /\ lreq' = [lreq EXCEPT !.From = ldata.NextPage]
    /\ lpc' = "ToLogData"
    /\ UNCHANGED <<reqVars, diffVars, rd, pathElems, epc, graph, ldata, pages>>

NextLog ==
    \/ ToLogData
    \/ More

----------------------------------------------------------------------------
(* Requests                                                                *)

SeqsUpTo(S, n) == UNION {[1..k -> S] : k \in 0..n}

\* the URL path with the given segments
UrlPath(segs) == S_slash \o StringsJoin(segs, S_slash)

NoQuery == [from |-> Empty, service |-> Empty]

S_a == <<"a">>
S_b == <<"b">>
S_h == <<"h">>
S_range == <<"a", ".", ".", "b">>
S_halfrange == <<"a", ".", ".">>

MaxRepoSegs == 2
MaxSubSegs == 2

\* what a client puts before the "-" separator, and after it in the
\* positions of the section, of the revision and of the sub-path
RepoPool == {S_dash, S_tree, S_dotdot}
SectionPool ==
    {Empty, S_a, S_repo, S_head, S_tree, S_blob, S_raw, S_diff, S_refs,
     S_log, S_commit}
RevPool == {Empty, S_a, S_range, S_halfrange}
SubPool == {Empty, S_a}

WebTails ==
    {<<>>, <<Empty>>, <<S_dash>>}
    \cup {<<S_dash, sec>> : sec \in SectionPool}
    \cup {<<S_dash, sec, rev>> \o sub :
             sec \in SectionPool, rev \in RevPool,
             sub \in SeqsUpTo(SubPool, MaxSubSegs)}

WebSegs == {r \o t : r \in SeqsUpTo(RepoPool, MaxRepoSegs), t \in WebTails}

\* the state of a request that has just arrived
Arrived(p, q, m, c, dirs, bad) ==
    /\ path = p
    /\ query = q
    /\ method = m
    /\ cfg = c
    /\ repoDirs = dirs
    /\ badDirs = bad
    /\ pc = "ServeHTTP"
    /\ perr = ErrNil
    /\ dReq = NewRequest
    /\ ctxRepo = NoRepo
    /\ repos = {}
    /\ status = <<>>
    /\ location = <<>>
    /\ probes = <<>>
    /\ steps = <<>>
    /\ hist = <<>>
    /\ DiffIdle
    /\ DataIdle

NoConfig ==
    [RemoveSuffix |-> FALSE, UseList |-> FALSE, ListOK |-> TRUE,
     ProjectList |-> <<>>]

InitWeb ==
    \E segs \in WebSegs, f \in {Empty, S_h} :
        Arrived(UrlPath(segs), [NoQuery EXCEPT !.from = f], "GET",
                NoConfig, {}, {})

MaxClonePrefix == 2
MaxCloneTail == 3

S_hex2 == <<"a", "b">>
S_hex38 == Rep("0", ObjNameLen)
S_packfile == S_packdash \o Rep("0", PackNameLen) \o S_dot \o S_pack
S_packXidx == S_packdash \o Rep("0", PackNameLen) \o <<"X">> \o S_idx

\* segments of the transfer paths and of their near misses
ClonePrefixPool == {S_a, S_dash}
CloneTailPool ==
    {S_HEAD, S_info, S_refs, S_objects, S_hex2, S_hex38, S_pack, S_packfile,
     S_packXidx, S_uploadpack}

CloneSegs ==
    {r \o t : r \in SeqsUpTo(ClonePrefixPool, MaxClonePrefix),
              t \in SeqsUpTo(CloneTailPool, MaxCloneTail)}

InitClone ==
    \E segs \in CloneSegs, sv \in {Empty, S_uploadpack} :
        Arrived(UrlPath(segs), [NoQuery EXCEPT !.service = sv], "GET",
                NoConfig, {}, {})

MaxServeSegs == 2
MaxRepos == 2

S_p == <<"p">>
S_pgit == S_p \o S_dotgit

\* the segments of the repository part of a served URL, and what follows
ServePool == {S_p, S_pgit, S_tree}
ServeTails ==
    {<<>>, <<S_dash, S_tree, S_a>>, <<S_dash, S_log>>,
     <<S_dash, S_diff, S_range>>, <<S_HEAD>>, <<S_dash, S_head, S_a>>}

\* a path that climbs out of the directory it names
ClimbSegs == {<<S_dotdot, S_tree>>}

ServeSegs ==
    {r \o t : r \in SeqsUpTo(ServePool, MaxServeSegs), t \in ServeTails}
    \cup ClimbSegs

Under(slug) == RepoBasePath \o S_slash \o slug

\* the directories that may hold a repository
DirPool ==
    {Under(S_p), Under(S_pgit), Under(S_p \o S_slash \o S_dotgit),
     Under(S_p \o S_slash \o S_tree)}

\* the directory above RepoBasePath
AboveBase == PathJoin(<<RepoBasePath, S_dotdot>>)

DirSets ==
    {D \in SUBSET DirPool : Cardinality(D) <= MaxRepos} \cup {{AboveBase}}

PlainScenario ==
    [method |-> "GET", UseList |-> FALSE, ListOK |-> TRUE,
     ProjectList |-> <<>>, bad |-> {}]

\* a deployment and a client: each differs from the plain one in one respect
Scenarios ==
    {PlainScenario, [PlainScenario EXCEPT !.method = "POST"]}
    \cup {[PlainScenario EXCEPT !.UseList = TRUE, !.ProjectList = l] :
             l \in {<<S_pgit>>, <<S_p, S_pgit>>}}
    \cup {[PlainScenario EXCEPT !.UseList = TRUE, !.ListOK = FALSE]}
    \cup {[PlainScenario EXCEPT !.bad = {d}] : d \in DirPool}

InitServe ==
    \E segs \in ServeSegs, dirs \in DirSets, rs \in BOOLEAN,
       sc \in Scenarios :
        Arrived(UrlPath(segs), NoQuery, sc.method,
                [RemoveSuffix |-> rs, UseList |-> sc.UseList,
                 ListOK |-> sc.ListOK, ProjectList |-> sc.ProjectList],
                dirs, sc.bad \cap dirs)

SpecServe == InitServe /\ [][Next]_vars

MaxHops == 2

\* the path of s up to and including its last "/"
RECURSIVE DirPart(_)
DirPart(s) ==
    IF s = Empty \/ s[Len(s)] = Slash THEN s
    ELSE DirPart(SubSeq(s, 1, Len(s) - 1))

\* the URL a client requests for a location header: the value itself when
\* it starts with "/", else the value put in place of the last segment of
\* the path it requested; "." and ".." segments are resolved
LocationTarget(base, loc) ==
    IF HasPrefix(loc, S_slash) THEN Clean(loc)
    ELSE Clean(DirPart(base) \o loc)

\* the client follows the redirect it was answered with
Follow ==
    /\ pc = "done"
    /\ status = <<StatusMovedPermanently>>
    /\ Len(hist) < MaxHops
    /\ hist' = Append(hist, [path |-> path, req |-> dReq,
                             loc |-> location[1],
                             by |-> steps[Len(steps)]])
    /\ path' = LocationTarget(path, location[1])
    /\ pc' = "ServeHTTP"
    /\ perr' = ErrNil
    /\ dReq' = NewRequest
    /\ ctxRepo' = NoRepo
    /\ repos' = {}
    /\ status' = <<>>
    /\ location' = <<>>
    /\ probes' = <<>>
    /\ steps' = <<>>
    /\ UNCHANGED <<query, method, cfg, repoDirs, badDirs, diffVars, dataVars>>

NextHop ==
    \/ Next
    \/ Follow

SpecHop == InitServe /\ [][NextHop]_vars

MaxChunks == 4
MaxEqualLines == 7

S_x == <<"x">>

\* n lines of text, each ended by "\n"
RECURSIVE LinesOf(_)
LinesOf(n) == IF n = 0 THEN Empty ELSE S_x \o S_newline \o LinesOf(n - 1)

\* the chunks of a patch: unchanged runs shorter and longer than the
\* context, additions of one line and of two lines, the last one without
\* its "\n", and deletions of one line and of none
ChunkPool ==
    {[Type |-> Equal, Content |-> LinesOf(n)] :
        n \in {1, DiffContext + 1, MaxEqualLines}}
    \cup {[Type |-> Add, Content |-> c] : c \in {LinesOf(1), LinesOf(1) \o S_x}}
    \cup {[Type |-> Delete, Content |-> c] : c \in {LinesOf(1), Empty}}

\* no request is under way
ServeIdle ==
    /\ path = Empty
    /\ query = NoQuery
    /\ method = "GET"
    /\ cfg = NoConfig
    /\ repoDirs = {}
    /\ badDirs = {}
    /\ pc = "idle"
    /\ perr = ErrNil
    /\ dReq = NewRequest
    /\ ctxRepo = NoRepo
    /\ repos = {}
    /\ status = <<>>
    /\ location = <<>>
    /\ probes = <<>>
    /\ steps = <<>>
    /\ hist = <<>>

InitDiff ==
    /\ ServeIdle
    /\ DataIdle
    /\ \E b \in BOOLEAN, cs \in SeqsUpTo(ChunkPool, MaxChunks) :
           fp = [IsBinary |-> b, Chunks |-> cs]
    /\ dpc = "Info"
    /\ ci = 0
    /\ scan = ScanStart
    /\ info = <<>>
    /\ ret = NoReturn
    /\ str = Empty

SpecDiff == InitDiff /\ [][NextDiff]_vars

MaxPathSegs == 4

\* the segments of the paths inside a repository
PathSegPool == {S_a, S_tree, Empty}

InitElems ==
    /\ ServeIdle
    /\ DiffIdle
    /\ \E slug \in {S_p, S_p \o S_slash \o S_tree}, rev \in {S_main, Empty},
          segs \in SeqsUpTo(PathSegPool, MaxPathSegs) :
           rd = [Repo |-> [Slug |-> slug], Revision |-> rev,
                 Path |-> StringsJoin(segs, S_slash)]
    /\ pathElems = <<>>
    /\ epc = "PathElems"
    /\ graph = NoGraph
    /\ lreq = NoLogRequest
    /\ ldata = NoLogData
    /\ pages = <<>>
    /\ lpc = "idle"

SpecElems == InitElems /\ [][NextElems]_vars

MaxCommits == 23

\* a history of n commits, each the child of the one before it; when m is
\* not 0, commit m is a merge of m - 1 and m - 2, in the order given
History(n, m, firstIsLatest) ==
    [parents |->
        [i \in 1..n |->
            IF i = 1 THEN <<>>
            ELSE IF i = m
                THEN IF firstIsLatest THEN <<i - 1, i - 2>>
                     ELSE <<i - 2, i - 1>>
            ELSE <<i - 1>>],
     tip |-> n]

GraphPool ==
    {History(n, 0, TRUE) : n \in 1..MaxCommits}
    \cup UNION {{History(n, m, b) : m \in 3..n, b \in BOOLEAN} :
                   n \in 3..MaxCommits}

InitLog ==
    /\ ServeIdle
    /\ DiffIdle
    /\ rd = NoRequestData
    /\ pathElems = <<>>
    /\ epc = "idle"
    /\ graph \in GraphPool
    /\ lreq = [Revision |-> S_main, From |-> NoHash]
    /\ ldata = NoLogData
    /\ pages = <<>>
    /\ lpc = "ToLogData"

SpecLog == InitLog /\ [][NextLog]_vars

NextParse == ServeHTTP

SpecClone == InitClone /\ [][NextParse]_vars

SpecWeb == InitWeb /\ [][NextParse]_vars

----------------------------------------------------------------------------
(* The web grammar                                                         *)

TransferSections == {S_dumbClone, S_smartClone}

Parsed == pc # "ServeHTTP"

Returned == Parsed /\ perr = ErrNil

\* the transfer grammar matches the path
CloneMatches == parseCloneRequest(path, query).err = ErrNil

\* the segments of the path after the leading empty ones are discarded
Segs == DropLeadingEmpty(Split(path, S_slash))

\* the position of the first "-" among segs[from..], 0 when there is none
FirstDash(segs, from) ==
    LET hits == {i \in from..Len(segs) : segs[i] = S_dash}
    IN  IF hits = {} THEN 0 ELSE CHOOSE i \in hits : \A j \in hits : i <= j

\* the revision segment as the request records it
RevisionOf(r) ==
    IF r.Section = S_diff THEN r.DiffFrom \o S_dotdot \o r.DiffTo
    ELSE r.Revision

\* the request the split at position d denotes, with the repository path
\* given: section, revision and sub-path are the segments after d
SplitAgrees(r, segs, d, repo) ==
    /\ r.Repo = repo
    /\ d < Len(segs) => r.Section = segs[d + 1]
    /\ RevisionOf(r) = (IF d + 1 < Len(segs) THEN segs[d + 2] ELSE Empty)
    /\ r.Path = StringsJoin(Tail2(segs, d + 3), S_slash)

\* C1 as stated: off the transfer grammar, Parse returns the root section
\* for the empty path; otherwise the repository path is the segments before
\* the first "-" joined by "/", and section, revision and sub-path are the
\* segments after it; without a "-" the whole path is the repository path
\* and the section is head.
C1_AsStated ==
    (Returned /\ ~CloneMatches) =>
        LET d == FirstDash(Segs, 1)
        IN  IF Len(Segs) = 0
                THEN dReq.Section = S_repo /\ dReq.Repo = Empty
            ELSE IF d = 0
                THEN /\ dReq.Section = S_head
                     /\ dReq.Repo = StringsJoin(Segs, S_slash)
            ELSE SplitAgrees(dReq, Segs, d,
                             StringsJoin(SubSeq(Segs, 1, d - 1), S_slash))

\* C1 (amended): off the transfer grammar, Parse returns the root section
\* for the empty path; otherwise the first segment always belongs to the
\* repository path, the separator is the first "-" after it, the repository
\* path is the segments before the separator joined by path.Join (empty and
\* "." segments dropped, ".." resolved), and section, revision and sub-path
\* are the segments after it; without a separator, or with nothing after
\* it, the section is head.
C1_WebSplit ==
    (Returned /\ ~CloneMatches) =>
        LET d == FirstDash(Segs, 2)
        IN  IF Len(Segs) = 0
                THEN dReq = [NewRequest EXCEPT !.Section = S_repo]
            ELSE IF d = 0
                THEN dReq = [NewRequest EXCEPT !.Section = S_head,
                                               !.Repo = PathJoin(Segs)]
            ELSE IF d = Len(Segs)
                THEN dReq = [NewRequest EXCEPT
                                !.Section = S_head,
                                !.Repo = PathJoin(SubSeq(Segs, 1, d - 1))]
            ELSE SplitAgrees(dReq, Segs, d, PathJoin(SubSeq(Segs, 1, d - 1)))

\* a path with a keyword before the separator, and a revision and a
\* sub-path after it, has been parsed
C1_Witness ==
    /\ Returned /\ ~CloneMatches
    /\ FirstDash(Segs, 2) = 3
    /\ Segs[2] = S_tree
    /\ dReq.Repo = S_tree \o S_slash \o S_tree
    /\ dReq.Section = S_tree
    /\ dReq.Revision = S_a
    /\ dReq.Path = S_a \o S_slash \o S_a

\* the web grammar applies to the path and finds segments after the
\* separator
HasTail ==
    /\ ~CloneMatches
    /\ FirstDash(Segs, 2) > 0
    /\ FirstDash(Segs, 2) < Len(Segs)

\* the segments in the positions of the section and of the revision, and
\* the sub-path, of a path with a tail
RawSection == Segs[FirstDash(Segs, 2) + 1]
RawRevision ==
    IF FirstDash(Segs, 2) + 1 < Len(Segs)
        THEN Segs[FirstDash(Segs, 2) + 2]
    ELSE Empty
RawPath == StringsJoin(Tail2(Segs, FirstDash(Segs, 2) + 3), S_slash)

\* C4 as stated: a diff path parses only if its revision segment splits on
\* ".." into exactly two non-empty revisions, which become DiffFrom and
\* DiffTo with Revision left empty; every other diff path is ErrMalformed.
C4_AsStated ==
    (Parsed /\ HasTail /\ RawSection = S_diff) =>
        LET ids == Split(RawRevision, S_dotdot)
        IN  IF Len(ids) = 2 /\ ids[1] # Empty /\ ids[2] # Empty
                THEN /\ perr = ErrNil
                     /\ dReq.DiffFrom = ids[1]
                     /\ dReq.DiffTo = ids[2]
                     /\ dReq.Revision = Empty
            ELSE perr = ErrMalformed

\* the path puts a revision or a sub-path where the section forbids one
Forbidden ==
    \/ RawSection = S_refs /\ (RawRevision # Empty \/ RawPath # Empty)
    \/ RawSection \in {S_log, S_commit} /\ RawPath # Empty

\* C5: a returned request of section refs has neither revision nor
\* sub-path, one of section log or commit has no sub-path, and a path that
\* puts one there fails with ErrMalformed.
C5_ForbiddenFields ==
    /\ Returned =>
          /\ dReq.Section = S_refs =>
                 dReq.Revision = Empty /\ dReq.Path = Empty
          /\ dReq.Section \in {S_log, S_commit} => dReq.Path = Empty
    /\ (Parsed /\ HasTail /\ Forbidden) => perr = ErrMalformed

\* a log path with a sub-path has been rejected
C5_Witness ==
    /\ Parsed /\ HasTail
    /\ RawSection = S_log /\ RawRevision = S_a /\ RawPath = S_a
    /\ query.from = Empty
    /\ perr = ErrMalformed
    /\ status = <<StatusBadRequest>>

\* C6 as stated: a non-empty "from" fails with ErrMalformed unless the
\* section is log, and a returned request with a cursor has section log.
C6_AsStated ==
    /\ (Parsed /\ query.from # Empty /\ ~(HasTail /\ RawSection = S_log))
          => perr = ErrMalformed
    /\ (Returned /\ dReq.From # Empty) => dReq.Section = S_log

KnownSections ==
    {S_head, S_tree, S_blob, S_raw, S_diff, S_refs, S_log, S_commit}

\* C7 as stated: a segment after the separator that is no section keyword
\* fails with ErrUnknownSection, answered 404, and no request with another
\* section is returned.
C7_AsStated ==
    /\ (Parsed /\ HasTail /\ RawSection \notin KnownSections) =>
          perr = ErrUnknownSection /\ status = <<StatusNotFound>>
    /\ Returned =>
          dReq.Section \in KnownSections \cup TransferSections \cup {S_repo}

\* the path a request re-serializes to: repository path, "-", section,
\* revision or diff range, sub-path, joined by path.Join
Reserialize(r) ==
    S_slash \o PathJoin(<<r.Repo, S_dash, r.Section,
                          IF r.Section = S_diff THEN RevisionOf(r)
                          ELSE r.Revision,
                          r.Path>>)

\* C8 as stated: a returned browsing request, re-serialized and parsed
\* again, gives the same request.
C8_AsStated ==
    (Returned /\ dReq.Section \in KnownSections) =>
        Parse(Reserialize(dReq), query) = Ok(dReq)

----------------------------------------------------------------------------
(* The transfer grammar                                                    *)

\* the five transfer forms, read literally
TransferForm(rest) ==
    \/ rest = <<S_HEAD>>
    \/ rest = <<S_info, S_refs>>
    \/ Len(rest) = 3 /\ rest[1] = S_objects /\ rest[2] = S_info
    \/ /\ Len(rest) = 3 /\ rest[1] = S_objects
       /\ Len(rest[2]) = ObjDirLen /\ HexRun(rest[2], 1, ObjDirLen)
       /\ Len(rest[3]) = ObjNameLen /\ HexRun(rest[3], 1, ObjNameLen)
    \/ /\ Len(rest) = 3 /\ rest[1] = S_objects /\ rest[2] = S_pack
       /\ HasPrefix(rest[3], S_packdash)
       /\ HexRun(rest[3], Len(S_packdash) + 1, PackNameLen)
       /\ Tail2(rest[3], Len(S_packdash) + PackNameLen + 1)
              \in {S_dot \o S_pack, S_dot \o S_idx}

\* the first split point whose remaining segments are a transfer form
FirstSplit(segs) ==
    LET hits == {k \in 1..(Len(segs) - 1) :
                    TransferForm(Tail2(segs, k + 1))}
    IN  IF hits = {} THEN 0 ELSE CHOOSE k \in hits : \A j \in hits : k <= j

\* C2 as stated: at the first split whose remainder is one of the five
\* transfer forms Parse returns a transfer request, repository path the
\* consumed segments and sub-path the remaining ones; when no split matches
\* the result is the web grammar's.
C2_AsStated ==
    Parsed =>
        LET k == FirstSplit(Segs)
        IN  IF k > 0
                THEN /\ perr = ErrNil
                     /\ dReq.Section \in TransferSections
                     /\ dReq.Repo = PathJoin(SubSeq(Segs, 1, k))
                     /\ dReq.Path = PathJoin(Tail2(Segs, k + 1))
            ELSE LET w == parseWebRequest(path, query)
                 IN  perr = w.err /\ dReq = w.req

\* C3 as stated: a transfer request is smartClone when service is
\* git-upload-pack and the sub-path is info/refs, or when the path ends in
\* the segment git-upload-pack; every other transfer request is dumbClone.
C3_AsStated ==
    Parsed =>
        LET n == Len(Segs)
            uploadPack == n >= 2 /\ Segs[n] = S_uploadpack
            smart == \/ /\ query.service = S_uploadpack
                        /\ dReq.Section \in TransferSections
                        /\ dReq.Path = S_inforefs
                     \/ uploadPack
        IN  /\ smart => perr = ErrNil /\ dReq.Section = S_smartClone
            /\ uploadPack =>
                   /\ dReq.Repo = PathJoin(SubSeq(Segs, 1, n - 1))
                   /\ dReq.Path = S_uploadpack
            /\ (perr = ErrNil /\ dReq.Section \in TransferSections /\ ~smart)
                   => dReq.Section = S_dumbClone

----------------------------------------------------------------------------
(* Repository resolution and the order of the pipeline                     *)

Ran(step) == \E i \in 1..Len(steps) : steps[i] = step

\* Repo has finished its attempts to open the repository
Resolved == Ran("Repo")

\* the directory of a slug
DirOf(slug) == PathJoin(<<RepoBasePath, slug>>)

\* a repository is served under the slug: the directory is a repository,
\* the slug is on the project list when one is configured, and it opens
Servable(slug) ==
    /\ DirOf(slug) \in repoDirs
    /\ cfg.UseList =>
           cfg.ListOK /\ \E i \in 1..Len(cfg.ProjectList) :
                             cfg.ProjectList[i] = slug
    /\ DirOf(slug) \notin badDirs

\* the three forms of the repository path
ThreeForms(r) == <<r, r \o S_dotgit, PathJoin(<<r, S_dotgit>>)>>

FirstServable(cands) ==
    LET ok == {k \in 1..Len(cands) : Servable(cands[k])}
    IN  IF ok = {} THEN 0 ELSE CHOOSE k \in ok : \A j \in ok : k <= j

\* the candidates are tried in order up to the first servable one, which is
\* the repository the handler gets
TriedInOrder(cands) ==
    LET k == FirstServable(cands)
    IN  IF k = 0 THEN probes = cands /\ ~ctxRepo.open
        ELSE /\ probes = SubSeq(cands, 1, k)
             /\ ctxRepo.open
             /\ RepoBasePath \o S_slash \o ctxRepo.Path = DirOf(cands[k])
             /\ ctxRepo.Slug =
                    IF cfg.RemoveSuffix /\ HasSuffix(ctxRepo.Path, S_dotgit)
                        THEN TrimSuffix(SubSeq(ctxRepo.Path, 1,
                                 Len(ctxRepo.Path) - Len(S_dotgit)), S_slash)
                    ELSE IF cfg.RemoveSuffix
                        THEN TrimSuffix(ctxRepo.Path, S_slash)
                    ELSE ctxRepo.Path

\* C9 as stated: the path, the path with ".git" and the path with "/.git"
\* are tried in this order up to the first repository, whatever
\* RemoveSuffix is.
C9_AsStated == Resolved => TriedInOrder(ThreeForms(dReq.Repo))

\* C9 (amended): resolution tries the parsed path unmodified and, only when
\* RemoveSuffix is set, the path with ".git" and the path with "/.git"
\* appended, in this order, stopping at the first that is a repository to
\* serve (a repository directory that is on the project list when one is
\* configured and that opens); RemoveSuffix also decides whether the slug
\* has a trailing ".git" stripped.
C9_Resolution ==
    Resolved =>
        TriedInOrder(IF cfg.RemoveSuffix THEN ThreeForms(dReq.Repo)
                     ELSE <<dReq.Repo>>)

\* the third form was reached and opened, and its slug lost the suffix
C9_Witness ==
    /\ Resolved
    /\ cfg.RemoveSuffix
    /\ Len(probes) = 3
    /\ ctxRepo.open
    /\ ctxRepo.Path = S_p \o S_slash \o S_dotgit
    /\ ctxRepo.Slug = S_p

IsHead == dReq.Section = S_head

\* the stages that follow Repo, as the outcome of each decides
ToHandler == (IF IsHead THEN <<"ResolveHead">> ELSE <<>>) \o <<"handler">>
ViaSuffix ==
    <<"trySuffixRedirect">>
    \o (IF trySuffixRedirectResult(dReq, cfg).found THEN <<>> ELSE ToHandler)
ViaDash ==
    <<"tryDashRedirect">>
    \o (IF tryDashRedirectResult(dReq, cfg).found THEN <<>> ELSE ViaSuffix)
Pipeline ==
    <<"ServeHTTP", "Get", "Repo">>
    \o (IF ctxRepo.open THEN ToHandler
        ELSE IF IsHead THEN ViaDash
        ELSE ViaSuffix)

\* C10: a request that needs a repository goes through resolution, then
\* (head only) separator recovery, then suffix recovery, then the handler,
\* each stage only when the ones before it failed; a resolved request is
\* never redirected, an unresolved one is answered 301 or 404, and one
\* status and at most one location are written.
C10_PipelineOrder ==
    /\ Len(status) <= 1 /\ Len(location) <= 1
    /\ location # <<>> => status = <<StatusMovedPermanently>>
    /\ \A i \in 1..Len(steps) : \A j \in 1..Len(steps) :
           steps[i] = steps[j] => i = j
    /\ Resolved =>
          /\ Len(steps) <= Len(Pipeline)
          /\ steps = SubSeq(Pipeline, 1, Len(steps))
    /\ (Resolved /\ pc = "done") =>
          /\ steps = Pipeline
          /\ Len(status) = 1
          /\ IF ctxRepo.open
                 THEN location = <<>> /\ status[1] \in HandlerOutcomes
             ELSE IF location # <<>>
                 THEN status = <<StatusMovedPermanently>>
             ELSE status = <<StatusNotFound>>

\* a head request went through every stage and was answered 404
C10_Witness ==
    /\ pc = "done"
    /\ steps = <<"ServeHTTP", "Get", "Repo", "tryDashRedirect",
                 "trySuffixRedirect", "ResolveHead", "handler">>
    /\ status = <<StatusNotFound>>
    /\ location = <<>>

----------------------------------------------------------------------------
(* Redirect recovery                                                       *)

\* the request has been answered with a redirect by the given stage
RedirectedBy(stage) ==
    /\ pc = "done"
    /\ status = <<StatusMovedPermanently>>
    /\ steps[Len(steps)] = stage

Redirected == RedirectedBy("tryDashRedirect") \/ RedirectedBy("trySuffixRedirect")

\* what the redirect target parses to
TargetParse == Parse(LocationTarget(path, location[1]), query)

\* C11 as stated: a followed redirect is answered without another redirect
\* and with the repository resolved, so no second hop is ever followed, and
\* a separator redirect keeps the repository name it found (no suffix is
\* toggled in the same redirect).
C11_AsStated ==
    /\ Len(hist) <= 1
    /\ (Len(hist) = 1 /\ pc = "done") =>
           /\ status # <<StatusMovedPermanently>>
           /\ ctxRepo.open
    /\ RedirectedBy("tryDashRedirect") =>
           \E j \in 2..Len(Split(dReq.Repo, S_slash)) :
               TargetParse.req.Repo =
                   PathJoin(SubSeq(Split(dReq.Repo, S_slash), 1, j - 1))

\* the path elements of the failed request's repository path
Elems == Split(dReq.Repo, S_slash)

\* a repository exists under the slug: a directory with objects and HEAD,
\* on the project list when one is configured
Exists(slug) ==
    /\ DirOf(slug) \in repoDirs
    /\ cfg.UseList =>
           cfg.ListOK /\ \E i \in 1..Len(cfg.ProjectList) :
                             cfg.ProjectList[i] = slug

\* the slug resolves as a repository under the suffix policy
ResolvesAs(slug) ==
    \/ Exists(slug)
    \/ cfg.RemoveSuffix
       /\ (Exists(slug \o S_dotgit) \/ Exists(slug \o S_slash \o S_dotgit))

\* r differs from the failed request in the repository path only
SameButRepo(r) ==
    /\ r.Section = dReq.Section
    /\ r.Revision = dReq.Revision
    /\ r.Path = dReq.Path
    /\ r.DiffFrom = dReq.DiffFrom
    /\ r.DiffTo = dReq.DiffTo
    /\ r.From = dReq.From

\* C12 as stated: the target of a redirect parses to the section, revision,
\* sub-path and diff range of the failed request (after a separator
\* redirect: to those the segments after the inserted "-" denote); only the
\* repository path differs.
C12_AsStated ==
    /\ RedirectedBy("trySuffixRedirect") =>
           TargetParse.err = ErrNil /\ SameButRepo(TargetParse.req)
    /\ RedirectedBy("tryDashRedirect") =>
           /\ TargetParse.err = ErrNil
           /\ \E j \in 2..Len(Elems) :
                  SplitAgrees(TargetParse.req, Elems, j - 1,
                              StringsJoin(SubSeq(Elems, 1, j - 1), S_slash))

\* the positions at which separator recovery may split the repository path
DashSplits ==
    {i \in 2..Len(Elems) :
        /\ Elems[i] \in KnownSections
        /\ ResolvesAs(StringsJoin(SubSeq(Elems, 1, i - 1), S_slash))}

\* tryDashRedirect has just run
AfterDash == steps # <<>> /\ steps[Len(steps)] = "tryDashRedirect"

\* C13 as stated: separator recovery splits at the largest position whose
\* element is a section keyword and whose prefix resolves as a repository,
\* answering 301 with "/" prefix "/-/" rest, and writes nothing when there
\* is no such position.
C13_AsStated ==
    AfterDash =>
        IF DashSplits = {} THEN status = <<>> /\ location = <<>>
        ELSE LET i == CHOOSE k \in DashSplits : \A j \in DashSplits : j <= k
             IN  /\ status = <<StatusMovedPermanently>>
                 /\ location =
                        <<S_slash
                          \o StringsJoin(SubSeq(Elems, 1, i - 1), S_slash)
                          \o S_slash \o S_dash \o S_slash
                          \o StringsJoin(Tail2(Elems, i), S_slash)>>

\* trySuffixRedirect has just run
AfterSuffix == steps # <<>> /\ steps[Len(steps)] = "trySuffixRedirect"

\* the repository paths that toggling ".git" on the failed one gives and
\* that exist
Toggled ==
    IF HasSuffix(dReq.Repo, S_dotgit)
        THEN {c \in {TrimSuffix(dReq.Repo, S_dotgit)} : Exists(c)}
    ELSE {c \in {dReq.Repo \o S_dotgit,
                 dReq.Repo \o S_slash \o S_dotgit} : Exists(c)}

\* C14 as stated: when the repository path with its ".git" suffix toggled
\* exists, suffix recovery answers 301 and the target is the failed request
\* under the toggled repository path.
C14_AsStated ==
    (AfterSuffix /\ Toggled # {}) =>
        /\ status = <<StatusMovedPermanently>>
        /\ Len(location) = 1
        /\ TargetParse.err = ErrNil
        /\ SameButRepo(TargetParse.req)
        /\ TargetParse.req.Repo \in Toggled

----------------------------------------------------------------------------
(* The project list                                                        *)

\* the entries of the project list
Listed == {cfg.ProjectList[i] : i \in 1..Len(cfg.ProjectList)}

\* the names a URL may give a listed repository: its path, and its path
\* without the ".git" suffix
NamesOf(e) ==
    {e, TrimSuffix(e, S_dotgit), TrimSuffix(TrimSuffix(e, S_dotgit), S_slash)}

\* the location names the repository: its repository part is the name
NamedBy(loc, name) ==
    \/ HasPrefix(loc, name \o S_slash \o S_dash)
    \/ HasPrefix(loc, S_slash \o name \o S_slash \o S_dash)

----------------------------------------------------------------------------
(* The diff presenter                                                      *)

\* the number of lines of a chunk's content: one for each "\n", and one
\* for what follows the last "\n"
NumLines(c) ==
    Cardinality({i \in 1..Len(c) : c[i] = Newline})
    + (IF c # Empty /\ c[Len(c)] # Newline THEN 1 ELSE 0)

\* the type of each input line, in order
RECURSIVE LineTypes(_)
LineTypes(chunks) ==
    IF chunks = <<>> THEN <<>>
    ELSE Rep(Head(chunks).Type, NumLines(Head(chunks).Content))
         \o LineTypes(Tail(chunks))

\* the number of the first k lines that the given side counts
CountOf(types, k, side) == Cardinality({j \in 1..k : types[j] \in side})

LeftSide == {Equal, Delete}
RightSide == {Equal, Add}

\* Info has scanned every chunk
Expanded ==
    ~fp.IsBinary /\ dpc \in {"chunks", "return", "String", "done", "panic"}
    /\ ci = Len(fp.Chunks)

ChangedRows(rows) == {d \in 1..Len(rows) : rows[d].Operation # Equal}

\* row i survives: a changed row is at most DiffContext rows away
Survives(rows, i) ==
    \E d \in ChangedRows(rows) :
        (IF i >= d THEN i - d ELSE d - i) <= DiffContext

\* the surviving rows from position i on, in order
RECURSIVE Survivors(_, _)
Survivors(rows, i) ==
    IF i > Len(rows) THEN <<>>
    ELSE (IF Survives(rows, i) THEN <<rows[i]>> ELSE <<>>)
         \o Survivors(rows, i + 1)

NotEllipsis(r) == r.Content # S_ellipsis

\* the windowing loop of Info has run
Windowed == ~fp.IsBinary /\ dpc \in {"return", "String", "done", "panic"}

\* Info has returned rows
ReturnedRows == ~fp.IsBinary /\ dpc \in {"String", "done"}

\* C17: the rows windowing keeps are exactly the expanded rows within
\* DiffContext rows of an added or deleted row, unchanged and in order,
\* with the numbers expansion gave them.
C17_Windowing ==
    /\ Windowed =>
           SelectSeq(info, NotEllipsis) = Survivors(scan.fullInfo, 1)
    /\ ReturnedRows =>
           SelectSeq(ret.rows, NotEllipsis) = Survivors(scan.fullInfo, 1)

\* rows were dropped between two changes: the rows next to the ellipsis
\* carry numbers that are not contiguous
C17_Witness ==
    /\ dpc = "done"
    /\ ~fp.IsBinary
    /\ \E k \in 2..(Len(ret.rows) - 1) :
           /\ ret.rows[k] = EllipsisRow
           /\ ret.rows[k - 1].Left = Itoa(4)
           /\ ret.rows[k + 1].Left = Itoa(6)

\* the output for rows: a surviving row as it is, and one ellipsis where a
\* run of rows that do not survive starts; an ellipsis is written for the
\* run at the start when leading is set, never for the run at the end
RECURSIVE Collapse(_, _, _)
Collapse(rows, i, leading) ==
    IF i > Len(rows) THEN <<>>
    ELSE (IF Survives(rows, i) THEN <<rows[i]>>
          ELSE IF /\ (IF i = 1 THEN leading ELSE Survives(rows, i - 1))
                  /\ \E j \in (i + 1)..Len(rows) : Survives(rows, j)
              THEN <<EllipsisRow>>
          ELSE <<>>)
         \o Collapse(rows, i + 1, leading)

RECURSIVE ChangedLines(_, _)
ChangedLines(rows, i) ==
    IF i > Len(rows) THEN <<>>
    ELSE (IF rows[i].Operation \in {Add, Delete} THEN <<i - 1>> ELSE <<>>)
         \o ChangedLines(rows, i + 1)

\* the windowing pass of Info applied to rows
Rewindow(rows) ==
    infoReturn(windowLoop(rows, ChangedLines(rows, 1), 0, FALSE, <<>>))

\* C19: the windowing pass applied to the rows Info returned, an ellipsis
\* counting as an unchanged row, returns the same rows.
C19_Idempotent ==
    ReturnedRows => Rewindow(ret.rows) = [rows |-> ret.rows, err |-> errNone]

\* the returned rows hold an ellipsis and end in context rows
C19_Witness ==
    /\ dpc = "done"
    /\ ~fp.IsBinary
    /\ \E k \in 1..Len(ret.rows) : ret.rows[k] = EllipsisRow
    /\ ret.rows[Len(ret.rows)].Operation = Equal
    /\ Len(info) > Len(ret.rows)

\* C20: for a binary patch Info returns no rows and errBinaryPatch without
\* scanning a chunk or windowing, and String returns the marker.
C20_Binary ==
    fp.IsBinary =>
        /\ dpc \in {"Info", "String", "done"}
        /\ ci = 0 /\ scan = ScanStart /\ info = <<>>
        /\ dpc \in {"String", "done"} =>
               ret = [rows |-> <<>>, err |-> errBinaryPatch]
        /\ dpc = "done" => str = S_binary

\* String has returned for a binary patch that has chunks with lines
C20_Witness ==
    /\ fp.IsBinary
    /\ dpc = "done"
    /\ str = S_binary
    /\ LineTypes(fp.Chunks) # <<>>


----------------------------------------------------------------------------
(* The default branch and the frame of the request                         *)

\* the browsing sections whose handlers resolve the revision of the request
RevisionSections == {S_head, S_tree, S_log, S_commit}

\* C22 as stated: a browsing request that names no revision reaches its
\* handler with the default branch as its revision, for tree, log and commit
\* as for head: the revision the handler reads was filled in by ResolveHead.
C22_AsStated ==
    (pc = "handler" /\ ctxRepo.open /\ dReq.Section \in RevisionSections
        /\ Parse(path, query).req.Revision = Empty)
        => Ran("ResolveHead")

\* C23 as stated: once Parse has returned, a step changes the request only
\* by filling in an empty revision; a revision the client supplied and every
\* other field are left as they are.
C23_AsStated ==
    [][Parsed =>
          \/ dReq' = dReq
          \/ /\ dReq.Revision = Empty
             /\ dReq' = [dReq EXCEPT !.Revision = dReq'.Revision]]_vars

----------------------------------------------------------------------------
(* The pack form and the separator                                         *)

\* C24 as stated: Parse returns a transfer request only when the segments
\* after some split of the path are one of the five transfer forms, the pack
\* form with a literal "." before pack or idx.
C24_AsStated ==
    (Returned /\ dReq.Section \in TransferSections) => FirstSplit(Segs) > 0

\* C28 as stated: no segment of the repository path Parse returns is "-".
C28_AsStated ==
    Returned =>
        \A i \in 1..Len(Split(dReq.Repo, S_slash)) :
            Split(dReq.Repo, S_slash)[i] # S_dash

----------------------------------------------------------------------------
(* The presenter on patches without changes                                *)

\* C25 as stated: Info returns for every file patch that is not binary; when
\* no row survives the windowing the result is the empty list and no error.
C25_AsStated ==
    /\ dpc # "panic"
    /\ (dpc \in {"String", "done"} /\ ~fp.IsBinary /\ info = <<>>) =>
           ret = [rows |-> <<>>, err |-> errNone]

----------------------------------------------------------------------------
(* The base directory, the Location header and the slugs                   *)

\* C26 as stated: every directory Repo tests or opens for a request lies
\* inside RepoBasePath.
C26_AsStated ==
    \A i \in 1..Len(probes) : IsAbove(RepoBasePath, DirOf(probes[i]))

\* C27 as stated: every Location header the redirect recovery writes starts
\* with "/".
C27_AsStated ==
    \A i \in 1..Len(location) : HasPrefix(location[i], S_slash)

\* the repository a request for the slug resolves to, NoRepo when none opens
ResolvedFor(slug) ==
    LET r == Parse(S_slash \o slug, NoQuery)
        cands == repoCandidates(r.req, cfg)
        k == IF r.err = ErrNil THEN firstOpen(cands, cfg) ELSE 0
    IN  IF k > 0 THEN tryToOpenRepo(cands[k], cfg) ELSE NoRepo

\* C30 as stated: a request for the slug of a repository the index lists
\* resolves to that repository's directory.
C30_AsStated ==
    (pc = "done" /\ Ran("Repos")) =>
        \A r \in repos :
            /\ ResolvedFor(r.Slug).open
            /\ ResolvedFor(r.Slug).Path = r.Path


----------------------------------------------------------------------------
(* The breadcrumb                                                          *)

----------------------------------------------------------------------------
(* The pages of the log                                                    *)

\* the hashes of the commits on the pages shown so far, in order
RECURSIVE ShownHashes(_)
ShownHashes(ps) ==
    IF ps = <<>> THEN <<>>
    ELSE [k \in 1..Len(Head(ps)) |-> Head(ps)[k].Hash]
             \o ShownHashes(Tail(ps))

\* C29 as stated: NextPage is set only on a full page whose last commit has
\* a parent, and when the reader has followed it to a page without a next
\* one, every commit reachable from the revision is on exactly one page.
C29_AsStated ==
    lpc = "log.tmpl" =>
        /\ HasNext(ldata) =>
               /\ Len(ldata.Commits) = LogPageSize
               /\ HasParents(ldata.Commits[LogPageSize])
        /\ ~HasNext(ldata) =>
               \A c \in Reach(graph, {graph.tip}) :
                   Cardinality({k \in 1..Len(ShownHashes(pages)) :
                                   ShownHashes(pages)[k] = c}) = 1

====
